---------------------------- MODULE Spec2Model ----------------------------
(***************************************************************************)
(* Model of the song recommendation pipeline of app.py:                    *)
(*   verify_song_exists, verify_song_artist_match (the two search-page     *)
(*   heuristics) and request_recommendations (model call, JSON shape       *)
(*   selection, per-item verification loop, final result).                 *)
(*                                                                         *)
(* Python strings are sequences of one-character strings, so that lower(), *)
(* strip(), `in` and find() are computed and not assumed.  JSON values are *)
(* tagged records [t, v]: t is the Python type json.loads produces.        *)
(***************************************************************************)
EXTENDS Integers, Sequences, FiniteSets, TLC

VARIABLES pc, reply, items, idx, verified_songs, origin, trace, log, last, prev, result

vars == <<pc, reply, items, idx, verified_songs, origin, trace, log, last, prev, result>>

---------------------------------------------------------------------------
(* Bounds of the model.                                                    *)

\* longest song array whose elements range over every kind of element
MaxShort == 2
\* longest song array (elements are complete records only beyond MaxShort)
MaxLong == 6
\* how far below the proximity limit the padded search pages start
GapSlack == 3

---------------------------------------------------------------------------
(* Python str operations.                                                  *)

\* str.lower() on one character of the model's alphabet
LowerCh(c) ==
    CASE c = "H" -> "h"
      [] c = "G" -> "g"
      [] c = "Y" -> "y"
      [] OTHER -> c

\* str.lower(), as a sequence
Lower(s) == SubSeq([i \in 1..Len(s) |-> LowerCh(s[i])], 1, Len(s))

\* the characters str.strip() removes (of the model's alphabet)
IsSpace(c) == c = " "

RECURSIVE LStrip(_)
LStrip(s) ==
    IF s # <<>> /\ IsSpace(Head(s)) THEN LStrip(Tail(s)) ELSE s

RECURSIVE RStrip(_)
RStrip(s) ==
    IF s # <<>> /\ IsSpace(s[Len(s)]) THEN RStrip(SubSeq(s, 1, Len(s) - 1)) ELSE s

\* str.strip()
Strip(s) == RStrip(LStrip(s))

\* needle occurs in hay at 0-based offset i
OccursAt(hay, needle, i) ==
    /\ i + Len(needle) <= Len(hay)
    /\ \A j \in 1..Len(needle) : hay[i + j] = needle[j]

\* Python `needle in hay`
Contains(hay, needle) ==
    \E i \in 0..(Len(hay) - Len(needle)) : OccursAt(hay, needle, i)

\* Python hay.find(needle): first 0-based offset, -1 when absent
Find(hay, needle) ==
    LET at == {i \in 0..(Len(hay) - Len(needle)) : OccursAt(hay, needle, i)}
    IN  IF at = {} THEN -1 ELSE CHOOSE i \in at : \A k \in at : i <= k

\* Python abs()
Abs(n) == IF n < 0 THEN -n ELSE n

---------------------------------------------------------------------------
(* JSON values as json.loads returns them.                                 *)

Str(s) == [t |-> "str", v |-> s]
Num(n) == [t |-> "num", v |-> n]
Bool(b) == [t |-> "bool", v |-> b]
Null == [t |-> "null", v |-> 0]
Arr(a) == [t |-> "arr", v |-> a]
Obj(f) == [t |-> "obj", v |-> f]

IsStr(x) == x.t = "str"

\* the strings of the model
sHi == <<"H", "i">>
sGo == <<"g", "o", " ">>
sYo == <<"Y", "o">>
sSongs == <<"s", "o", "n", "g", "s">>

\* the literal default of item.get("title", ...): any string no song carries
DefaultTitle == Str(<<"?", "t">>)
\* the literal default of item.get("artist", ...)
DefaultArtist == Str(<<"?", "a">>)

---------------------------------------------------------------------------
(* Search responses: requests.get either raises (timeout, DNS, connection) *)
(* or returns a response with a status code and a text.                    *)

Raised == [kind |-> "raise", status |-> 0, text |-> <<>>]
Http(status, text) == [kind |-> "http", status |-> status, text |-> text]

\* the status the verifiers accept
StatusOK == 200
\* the distance below which title and artist count as matched
ProximityLimit == 500

\* the separator of f"{title_lower} - {artist_lower}"
Dash == <<" ", "-", " ">>

\* the 200 branch of verify_song_exists on the lowered page
exists_in_page(content, title_lower, artist_lower) ==
    LET title_found == Contains(content, title_lower)
        artist_found == Contains(content, artist_lower)
    IN  IF title_found /\ artist_found THEN TRUE ELSE FALSE

\* title.lower().strip() and artist.lower().strip()
Normalise(s) == Strip(Lower(s))

\* verify_song_exists after requests.get gave resp (or raised)
verify_song_exists(title, artist, resp) ==
    IF resp.kind = "raise" THEN TRUE
    ELSE IF resp.status = StatusOK
         THEN IF ~IsStr(title) \/ ~IsStr(artist)
              THEN TRUE   \* .lower() raises AttributeError, caught at `except Exception`
              ELSE exists_in_page(Lower(resp.text), Normalise(title.v), Normalise(artist.v))
         ELSE FALSE

\* quote_plus(title) raises TypeError for a title that is no str, before any
\* request is made; verify_song_exists quotes an f-string and always sends
MatchSends(title) == IsStr(title)

\* as Matched, but returning the artist in the normalised spelling
MatchedCorrected(artist) == <<TRUE, Str(Strip(Lower(artist.v)))>>

\* `return (True, artist)` once title and artist are matched in the page
Matched(artist) == <<TRUE, artist>>

\* `return (False, artist)`: the page does not match
Unmatched(artist) == <<FALSE, artist>>

\* as Non200Match, but rejecting as verify_song_exists does
Non200Reject(artist) == <<FALSE, artist>>

\* the return after `if response.status_code == 200:` was not taken
Non200Match(artist) == <<TRUE, artist>>

\* as TransportMatch, but failing closed
TransportReject(artist) == <<FALSE, artist>>

\* the return of `except Exception:`
TransportMatch(artist) == <<TRUE, artist>>

\* as WithinProximity, with the limit included
WithinProximityInclusive(title_pos, artist_pos) ==
    Abs(title_pos - artist_pos) <= ProximityLimit

\* abs(title_pos - artist_pos) < 500
WithinProximity(title_pos, artist_pos) ==
    Abs(title_pos - artist_pos) < ProximityLimit

\* the 200 branch of verify_song_artist_match on the lowered page
match_in_page(content, title_lower, artist_lower, artist) ==
    LET title_pos == Find(content, title_lower)
        artist_pos == Find(content, artist_lower)
    IN  IF Contains(content, title_lower) /\ Contains(content, artist_lower)
        THEN IF \/ Contains(content, title_lower \o Dash \o artist_lower)
                \/ Contains(content, artist_lower \o Dash \o title_lower)
             THEN Matched(artist)
             ELSE IF /\ title_pos # -1
                     /\ artist_pos # -1
                     /\ WithinProximity(title_pos, artist_pos)
                  THEN Matched(artist)
                  ELSE Unmatched(artist)
        ELSE Unmatched(artist)

\* verify_song_artist_match after requests.get gave resp (or raised)
verify_song_artist_match(title, artist, resp) ==
    IF ~MatchSends(title) THEN TransportMatch(artist)
    ELSE IF resp.kind = "raise" THEN TransportMatch(artist)
    ELSE IF resp.status = StatusOK
         THEN IF ~IsStr(artist)
              THEN TransportMatch(artist)   \* artist.lower() raises, caught
              ELSE match_in_page(Lower(resp.text), Normalise(title.v), Normalise(artist.v), artist)
         ELSE Non200Match(artist)

---------------------------------------------------------------------------
(* Inputs of the verifiers.                                                *)

\* titles and artists a model reply can carry: mixed case, surrounding
\* blanks, empty, and a JSON number in place of a string
Titles == {Str(sHi), Str(sGo), Str(<<>>), Num(7)}
Artists == {Str(sYo), Str(<<" ", "y", "o">>), Num(7)}

\* pieces of a search page
Fragments ==
    { <<>>,
      <<"h", "i">>,
      <<"y", "o">>,
      <<"g", "o">>,
      <<"H", "i", " ", "-", " ", "Y", "o">>,
      <<"y", "o", " ", "-", " ", "h", "i">>,
      <<"g", "o", " ", "-", " ", "y", "o">> }

\* n characters of unrelated markup
Pad(n) == [i \in 1..n |-> "."]

\* distances between two fragments: adjacent, and around the proximity limit
Gaps == {0} \cup ((ProximityLimit - GapSlack)..(ProximityLimit + 1))

Bodies == {pre \o Pad(k) \o post : pre \in Fragments, post \in Fragments, k \in Gaps}

\* pages served with a status other than 200
ErrorBodies == {<<>>, <<"H", "i", " ", "-", " ", "Y", "o">>}

Responses ==
    {Raised} \cup {Http(StatusOK, b) : b \in Bodies}
             \cup {Http(st, b) : st \in {404, 503}, b \in ErrorBodies}

---------------------------------------------------------------------------
(* The record of a verifier call: the array element it is made for (0      *)
(* when made alone), its arguments, whether a GET was sent, the response,  *)
(* and what the call returned.                                             *)

NoCall(i, title, artist, resp) ==
    [op |-> "none", i |-> i, title |-> title, artist |-> artist, resp |-> resp,
     sent |-> FALSE, valid |-> FALSE, artist_out |-> artist]

ExistsCall(i, title, artist, resp) ==
    [op |-> "exists", i |-> i, title |-> title, artist |-> artist, resp |-> resp,
     sent |-> TRUE, valid |-> verify_song_exists(title, artist, resp),
     artist_out |-> artist]

MatchCall(i, title, artist, resp) ==
    LET r == verify_song_artist_match(title, artist, resp)
    IN  [op |-> "match", i |-> i, title |-> title, artist |-> artist, resp |-> resp,
         sent |-> MatchSends(title), valid |-> r[1], artist_out |-> r[2]]

---------------------------------------------------------------------------
(* The verifiers alone, on every input of the bounded sets.                *)

InitVerify ==
    /\ pc = "verify"
    /\ \E title \in Titles, artist \in Artists, resp \in Responses :
          last = NoCall(0, title, artist, resp)
    /\ prev = NoCall(0, Null, Null, Raised)
    /\ reply = [kind |-> "none", value |-> Null]
    /\ items = <<>>
    /\ idx = 0
    /\ verified_songs = <<>>
    /\ origin = <<>>
    /\ trace = <<>>
    /\ log = <<>>
    /\ result = [kind |-> "none", err |-> "", songs |-> <<>>]

ApplyExists ==
    /\ pc = "verify"
    /\ last' = ExistsCall(0, last.title, last.artist, last.resp)
    /\ pc' = "verified"
    /\ UNCHANGED <<reply, items, idx, verified_songs, origin, trace, log, prev, result>>

ApplyMatch ==
    /\ pc = "verify"
    /\ last' = MatchCall(0, last.title, last.artist, last.resp)
    /\ pc' = "verified"
    /\ UNCHANGED <<reply, items, idx, verified_songs, origin, trace, log, prev, result>>

NextVerify == ApplyExists \/ ApplyMatch

SpecVerify == InitVerify /\ [][NextVerify]_vars

---------------------------------------------------------------------------
(* request_recommendations: the decoded reply and its song array.          *)

\* a key the record does not carry
Absent == [t |-> "absent", v |-> 0]

\* a JSON object with the title and artist keys that are given
Dict(title, artist) ==
    Obj([k \in (IF title = Absent THEN {} ELSE {"title"})
               \cup (IF artist = Absent THEN {} ELSE {"artist"})
            |-> IF k = "title" THEN title ELSE artist])

\* dict.get(key, default)
Get(item, key, default) ==
    IF key \in DOMAIN item.v THEN item.v[key] ELSE default

\* the SongRecommendation built from item with the verified artist
SongRecommendation(item, verified_artist) ==
    [title |-> Get(item, "title", DefaultTitle),
     artist |-> verified_artist,
     theme |-> Get(item, "theme_match", Get(item, "theme", Str(<<>>))),
     link |-> Get(item, "link", Str(<<>>)),
     highlight |-> Get(item, "key_lyrics", Get(item, "highlight", Str(<<>>)))]

\* as IsComplete, without the test of the artist
IsCompleteTitleOnly(item) ==
    /\ item.t = "obj"
    /\ Get(item, "title", DefaultTitle) # DefaultTitle

\* the loop's two `continue` tests: the element is a dict, and neither title
\* nor artist equals its default
IsComplete(item) ==
    /\ item.t = "obj"
    /\ ~(\/ Get(item, "title", DefaultTitle) = DefaultTitle
         \/ Get(item, "artist", DefaultArtist) = DefaultArtist)

\* as NeedsMatch, running the artist check whatever the existence check said
NeedsMatchAlways(exists) == TRUE

\* `if verify_song_exists(title, artist):` guards the artist check
NeedsMatch(exists) == exists

\* as KeepSong, inserting at the front
KeepSongFirst(songs, song) == <<song>> \o songs

\* as KeepSong, appending the song twice
KeepSongTwice(songs, song) == Append(Append(songs, song), song)

\* verified_songs.append(...)
KeepSong(songs, song) == Append(songs, song)

NoResult == [kind |-> "none", err |-> "", songs |-> <<>>]
Raise(err) == [kind |-> "error", err |-> err, songs |-> <<>>]
Return(songs) == [kind |-> "list", err |-> "", songs |-> songs]

\* Python `"songs" in payload`: key of a dict, element of a list, substring
\* of a str; TypeError for a number, a bool or None
SongsIn(payload) ==
    CASE payload.t = "obj" -> "songs" \in DOMAIN payload.v
      [] payload.t = "arr" -> \E k \in 1..Len(payload.v) : payload.v[k] = Str(sSongs)
      [] payload.t = "str" -> Contains(payload.v, sSongs)

\* the shape selection: the song array, or the exception raised
SelectItems(payload) ==
    IF payload.t \in {"num", "bool", "null"}
    THEN Raise("TypeError")                \* `in` on a value that is no container
    ELSE IF SongsIn(payload)
         THEN IF payload.t # "obj"
              THEN Raise("TypeError")      \* payload["songs"] on a list or a str
              ELSE IF payload.v["songs"].t = "arr"
                   THEN Return(payload.v["songs"].v)
                   ELSE Raise("StructureError")   \* a dict is no list
         ELSE IF payload.t = "arr"
              THEN Return(payload.v)
              ELSE Raise("StructureError")

\* as FinalResult, without the test for an empty list
FinalResultUnchecked(songs) == Return(songs)

\* the end of request_recommendations
FinalResult(songs) ==
    IF Len(songs) < 3 /\ Len(songs) = 0
    THEN Raise("NoResultsError")
    ELSE IF songs = <<>>
         THEN Raise("NoRecommendationError")
         ELSE Return(songs)

---------------------------------------------------------------------------
(* Model replies.                                                          *)

ItemTitles == {Absent, DefaultTitle, Str(sHi), Str(sGo), Num(7)}
ItemArtists == {Absent, DefaultArtist, Str(sYo)}

\* what an element of the song array can be
Elements ==
    {Dict(title, artist) : title \in ItemTitles, artist \in ItemArtists}
        \cup {Num(7), Str(sSongs)}

ShortArrays == UNION {[1..n -> Elements] : n \in 0..MaxShort}

\* arrays of complete records, alternating two songs
LongArrays ==
    {[i \in 1..n |-> Dict(Str(IF i % 2 = 1 THEN sHi ELSE sGo), Str(sYo))] :
        n \in (MaxShort + 1)..MaxLong}

Arrays == ShortArrays \cup LongArrays

Payloads ==
    {Arr(a) : a \in Arrays}
        \cup {Obj([k \in {"songs"} |-> Arr(a)]) : a \in Arrays}
        \cup {Obj([k \in {"songs"} |-> x]) : x \in {Num(1), Str(sSongs), Null}}
        \cup {Obj([k \in {"foo"} |-> Num(1)]), Obj(<<>>)}
        \cup {Str(sSongs), Str(sHi), Num(5), Bool(TRUE), Null}

\* the model call raises, or its text does not decode, or decodes to a value
Replies ==
    {[kind |-> "api_error", value |-> Null], [kind |-> "bad_json", value |-> Null]}
        \cup {[kind |-> "json", value |-> p] : p \in Payloads}

PipelineBodies ==
    { <<>>,
      <<"h", "i">>,
      <<"H", "i", " ", "-", " ", "Y", "o">>,
      <<"g", "o", " ", "-", " ", "y", "o">> }

PipelineResponses ==
    {Raised, Http(404, <<>>)} \cup {Http(StatusOK, b) : b \in PipelineBodies}

---------------------------------------------------------------------------
(* The pipeline.  log is the sequence of outbound requests; trace[i] is    *)
(* what happened to element i; origin[k] is the element verified_songs[k]  *)
(* was built from; prev is the verifier call before last, for the same     *)
(* element.                                                                *)

ModelRequest == [kind |-> "model", i |-> 0]
Search(kind, i) == [kind |-> kind, i |-> i]

Outcome(complete, exists, valid) ==
    [complete |-> complete, exists |-> exists, valid |-> valid]

Idle == NoCall(0, Null, Null, Raised)

Init ==
    /\ pc = "start"
    /\ reply = [kind |-> "none", value |-> Null]
    /\ items = <<>>
    /\ idx = 0
    /\ verified_songs = <<>>
    /\ origin = <<>>
    /\ trace = <<>>
    /\ log = <<>>
    /\ last = Idle
    /\ prev = Idle
    /\ result = NoResult

\* client.chat.completions.create, json.loads and the shape selection.  The
\* reply is taken after the fence stripping, which only cuts the text and
\* cannot raise: the text then fails to decode ("bad_json") or decodes to a
\* value; "api_error" is the call raising, or giving no text to search for a
\* fence, which propagates to the caller.
CallModel ==
    /\ pc = "start"
    /\ \E r \in Replies :
          /\ reply' = r
          /\ log' = Append(log, ModelRequest)
          /\ IF r.kind = "api_error"
             THEN /\ result' = Raise("APIError")
                  /\ pc' = "done"
                  /\ UNCHANGED <<items, idx>>
             ELSE IF r.kind = "bad_json"
             THEN /\ result' = Raise("ParseError")
                  /\ pc' = "done"
                  /\ UNCHANGED <<items, idx>>
             ELSE LET sel == SelectItems(r.value)
                  IN  IF sel.kind = "error"
                      THEN /\ result' = sel
                           /\ pc' = "done"
                           /\ UNCHANGED <<items, idx>>
                      ELSE /\ items' = sel.songs
                           /\ idx' = 1
                           /\ pc' = "loop"
                           /\ UNCHANGED result
    /\ UNCHANGED <<verified_songs, origin, trace, last, prev>>

\* an element that is no dict, or lacks title or artist: `continue`
SkipItem ==
    /\ pc = "loop"
    /\ idx <= Len(items)
    /\ ~IsComplete(items[idx])
    /\ trace' = Append(trace, Outcome(FALSE, FALSE, FALSE))
    /\ idx' = idx + 1
    /\ UNCHANGED <<pc, reply, items, verified_songs, origin, log, last, prev, result>>

\* verify_song_exists(title, artist) on a complete record
CheckExists ==
    /\ pc = "loop"
    /\ idx <= Len(items)
    /\ IsComplete(items[idx])
    /\ \E resp \in PipelineResponses :
          LET title == Get(items[idx], "title", DefaultTitle)
              artist == Get(items[idx], "artist", DefaultArtist)
              call == ExistsCall(idx, title, artist, resp)
          IN  /\ last' = call
              /\ prev' = Idle
              /\ log' = Append(log, Search("title_artist", idx))
              /\ IF NeedsMatch(call.valid)
                 THEN /\ pc' = "match"
                      /\ UNCHANGED <<idx, trace>>
                 ELSE /\ trace' = Append(trace, Outcome(TRUE, call.valid, FALSE))
                      /\ idx' = idx + 1
                      /\ UNCHANGED pc
    /\ UNCHANGED <<reply, items, verified_songs, origin, result>>

\* verify_song_artist_match(title, artist), then the append
CheckMatch ==
    /\ pc = "match"
    /\ \E resp \in PipelineResponses :
          LET title == Get(items[idx], "title", DefaultTitle)
              artist == Get(items[idx], "artist", DefaultArtist)
              call == MatchCall(idx, title, artist, resp)
          IN  /\ MatchSends(title) \/ resp = Raised
              /\ last' = call
              /\ prev' = last
              /\ log' = IF call.sent THEN Append(log, Search("title", idx)) ELSE log
              /\ trace' = Append(trace, Outcome(TRUE, last.valid, call.valid))
              /\ IF call.valid
                 THEN /\ verified_songs' =
                            KeepSong(verified_songs,
                                     SongRecommendation(items[idx], call.artist_out))
                      /\ origin' = Append(origin, idx)
                 ELSE UNCHANGED <<verified_songs, origin>>
    /\ idx' = idx + 1
    /\ pc' = "loop"
    /\ UNCHANGED <<reply, items, result>>

\* after the loop: raise or return
Finish ==
    /\ pc = "loop"
    /\ idx > Len(items)
    /\ result' = FinalResult(verified_songs)
    /\ pc' = "done"
    /\ UNCHANGED <<reply, items, idx, verified_songs, origin, trace, log, last, prev>>

Next == CallModel \/ SkipItem \/ CheckExists \/ CheckMatch \/ Finish

Spec == Init /\ [][Next]_vars

---------------------------------------------------------------------------
(* What the properties below read off a state.                             *)

\* element i passed both verifiers
Approved(i) == trace[i].complete /\ trace[i].exists /\ trace[i].valid

\* the title and artist of a verified song
Pair(song) == <<song.title, song.artist>>
Pairs(songs) == [k \in 1..Len(songs) |-> Pair(songs[k])]

\* the title and artist of the approved elements among the first n, in order
RECURSIVE ApprovedPairs(_)
ApprovedPairs(n) ==
    IF n = 0 THEN <<>>
    ELSE IF Approved(n)
         THEN Append(ApprovedPairs(n - 1), <<items[n].v["title"], items[n].v["artist"]>>)
         ELSE ApprovedPairs(n - 1)

\* the elements verified songs were built from
Origins == {origin[k] : k \in 1..Len(origin)}

\* the reply decoded and a song array was selected from it
ParsedOK ==
    /\ pc # "start"
    /\ reply.kind = "json"
    /\ result.err \notin {"StructureError", "TypeError"}

\* an element the parser must reject: no keyed record, or title or artist
\* missing or equal to its placeholder
Incomplete(item) ==
    \/ item.t # "obj"
    \/ "title" \notin DOMAIN item.v
    \/ "artist" \notin DOMAIN item.v
    \/ item.v["title"] = DefaultTitle
    \/ item.v["artist"] = DefaultArtist

\* the latest call is the artist check, answered with an HTTP status
MatchAnswered == last.op = "match" /\ last.sent /\ last.resp.kind = "http"

\* the search requests made for element i
SearchesFor(i) == {k \in 1..Len(log) : log[k].kind # "model" /\ log[k].i = i}

---------------------------------------------------------------------------
(* C1 *)
\* C1: the returned list is exactly the complete candidates that both
\* verifiers approved, in the order of the reply, each once; while the loop
\* runs, verified_songs is that subsequence of the elements processed so far.
C1_ExactSubsequence ==
    /\ ParsedOK => Pairs(verified_songs) = ApprovedPairs(Len(trace))
    /\ result.kind = "list" =>
          /\ Len(trace) = Len(items)
          /\ Pairs(result.songs) = ApprovedPairs(Len(items))

\* five songs in the reply, exactly two approved, one dropped by each verifier
C1_Witness ==
    /\ result.kind = "list"
    /\ Len(items) = 5
    /\ Len(result.songs) = 2
    /\ \E i \in 1..5 : trace[i].complete /\ ~trace[i].exists
    /\ \E i \in 1..5 : trace[i].exists /\ ~trace[i].valid

(* C2 *)
\* C2 as stated: an answer to the title-only search with a status other than
\* 200 makes verify_song_artist_match return (false, artist), and the
\* candidate is dropped.
C2_Non200Rejects ==
    (MatchAnswered /\ last.resp.status # 200) =>
        /\ last.valid = FALSE
        /\ last.artist_out = last.artist
        /\ last.i \notin Origins

\* C2 amended: such an answer makes verify_song_artist_match return
\* (true, artist), and the candidate is kept.
C2_Non200Accepts ==
    (MatchAnswered /\ last.resp.status # 200) =>
        /\ last.valid = TRUE
        /\ last.artist_out = last.artist
        /\ Approved(last.i)
        /\ last.i \in Origins

\* the artist check of a candidate was answered 404 and the list returned
C2_Witness ==
    /\ MatchAnswered
    /\ last.resp.status = 404
    /\ result.kind = "list"
    /\ last.i \in Origins

(* C3 *)
\* C3: an object with a "songs" array selects that array; otherwise an array
\* selects itself, also when "songs" is one of its elements; every other
\* value fails with StructureError, and shape selection fails in no other way.
C3_ShapeSelection ==
    (pc # "start" /\ reply.kind = "json") =>
        LET payload == reply.value
        IN  IF /\ payload.t = "obj"
               /\ "songs" \in DOMAIN payload.v
               /\ payload.v["songs"].t = "arr"
            THEN /\ items = payload.v["songs"].v
                 /\ result.err \notin {"StructureError", "TypeError"}
            ELSE IF payload.t = "arr"
                 THEN /\ items = payload.v
                      /\ result.err \notin {"StructureError", "TypeError"}
                 ELSE result = Raise("StructureError")

(* C4 *)
\* C4 as stated: a returned list has between 1 and 5 entries.
C4_OneToFive ==
    result.kind = "list" => Len(result.songs) \in 1..5

\* C4 amended: a returned list has at least 1 entry and at most as many
\* entries as the song array of the reply has elements.
C4_OneToArrayLength ==
    result.kind = "list" => Len(result.songs) \in 1..Len(items)

\* more than 5 elements, all approved and all returned
C4_Witness ==
    /\ result.kind = "list"
    /\ Len(items) > 5
    /\ Len(result.songs) = Len(items)

(* C5 *)
\* C5: when the reply parsed and no candidate is approved (an empty array
\* included), the run ends with NoResultsError and no list; a run never ends
\* with an empty list, nor with songs beside an error.
C5_NoResults ==
    /\ (pc = "done" /\ ParsedOK /\ \A i \in 1..Len(trace) : ~Approved(i)) =>
          result = Raise("NoResultsError")
    /\ result.kind = "list" => result.songs # <<>> /\ result.err = ""
    /\ result.kind = "error" => result.songs = <<>>
    /\ pc = "done" => result.kind \in {"list", "error"}

\* candidates were verified and every one of them was dropped
C5_Witness ==
    /\ pc = "done"
    /\ result.err = "NoResultsError"
    /\ \E i \in 1..Len(trace) : trace[i].complete /\ ~trace[i].exists
    /\ \E i \in 1..Len(trace) : trace[i].exists /\ ~trace[i].valid

(* C6 *)
\* C6: a search request that raises makes verify_song_exists return true and
\* verify_song_artist_match return (true, artist); a candidate whose two
\* requests both raise is appended to verified_songs and is in the returned
\* list.
C6_FailOpen ==
    /\ (last.op = "exists" /\ last.sent /\ last.resp.kind = "raise") => last.valid
    /\ (last.op = "match" /\ last.sent /\ last.resp.kind = "raise") =>
          last.valid /\ last.artist_out = last.artist
    /\ (/\ last.op = "match" /\ last.sent /\ last.resp.kind = "raise"
        /\ prev.op = "exists" /\ prev.sent /\ prev.resp.kind = "raise") =>
          /\ Approved(last.i)
          /\ last.i \in Origins
          /\ result.kind \in {"none", "list"}
          /\ result.kind = "list" =>
                \E k \in 1..Len(result.songs) :
                    /\ origin[k] = last.i
                    /\ Pair(result.songs[k]) =
                          <<items[last.i].v["title"], items[last.i].v["artist"]>>

\* both requests of a candidate raised and the list was returned with it
C6_Witness ==
    /\ result.kind = "list"
    /\ last.op = "match" /\ last.sent /\ last.resp.kind = "raise"
    /\ prev.op = "exists" /\ prev.sent /\ prev.resp.kind = "raise"
    /\ last.i \in Origins

ClaimedMatch(body, title, artist) ==
    /\ Contains(body, title)
    /\ Contains(body, artist)
    /\ \/ Contains(body, title \o <<" ", "-", " ">> \o artist)
       \/ Contains(body, artist \o <<" ", "-", " ">> \o title)
       \/ Abs(Find(body, title) - Find(body, artist)) < 500

\* the artist check of a str title and a str artist was answered 200
Match200 ==
    /\ MatchAnswered
    /\ last.resp.status = 200
    /\ IsStr(last.title)
    /\ IsStr(last.artist)

\* C8 as stated: on a 200 answer the result is (true, artist) exactly when the
\* condition holds of the lower-cased page, title and artist, and
\* (false, artist) otherwise.
C8_LowerCased ==
    Match200 =>
        /\ last.valid = ClaimedMatch(Lower(last.resp.text), Lower(last.title.v),
                                     Lower(last.artist.v))
        /\ last.artist_out = last.artist

\* C8 amended: for a str title and artist, the condition is taken of the
\* lower-cased page and of the title and artist lower-cased and stripped of
\* leading and trailing blanks.
C8_LowerCasedStripped ==
    Match200 =>
        /\ last.valid = ClaimedMatch(Lower(last.resp.text), Strip(Lower(last.title.v)),
                                     Strip(Lower(last.artist.v)))
        /\ last.artist_out = last.artist

\* a title with a trailing blank matched by distance alone, 499 characters
\* from the artist
C8_Witness ==
    /\ Match200
    /\ last.valid
    /\ last.title.v # Strip(last.title.v)
    /\ LET body == Lower(last.resp.text)
           title == Strip(Lower(last.title.v))
           artist == Strip(Lower(last.artist.v))
       IN  /\ ~Contains(body, title \o <<" ", "-", " ">> \o artist)
           /\ ~Contains(body, artist \o <<" ", "-", " ">> \o title)
           /\ Abs(Find(body, title) - Find(body, artist)) = 499

C10_ArtistUnchanged ==
    /\ last.op = "match" => last.artist_out = last.artist
    /\ Len(origin) = Len(verified_songs)
    /\ \A k \in 1..Len(verified_songs) :
          Pair(verified_songs[k]) =
              <<items[origin[k]].v["title"], items[origin[k]].v["artist"]>>
    /\ result.kind = "list" => result.songs = verified_songs

\* a song approved on a 200 page and returned, its artist spelt with a capital
C10_Witness ==
    /\ result.kind = "list"
    /\ MatchAnswered
    /\ last.resp.status = 200
    /\ last.valid
    /\ last.artist.v # Lower(last.artist.v)
    /\ last.i \in Origins

=============================================================================
